---- MODULE Spec2Model ----
(***************************************************************************)
(* OnPair / OnPair16 string compression: the longest-prefix matchers       *)
(* (lpm16.h, lpm.h), the pair-discovery trainer, the greedy parser and the *)
(* table-driven decompressors (onpair16.cpp, onpair.cpp).                  *)
(*                                                                         *)
(* A byte is a number 0..255.  A uint64_t is a tuple of 8 bytes, element 1 *)
(* the low-order byte (the little-endian view the code takes of memory).   *)
(* Memory behind a pointer is the sequence of bytes from the pointer to    *)
(* the end of its allocation; a read past it yields `junk`, a byte the     *)
(* caller of the operator chooses freely.                                  *)
(***************************************************************************)
EXTENDS Integers, Sequences, FiniteSets, TLC

\* ------------------------------------------------------------------ bounds
\* Strings per input collection.
MaxStrings == 2
\* Stands for std::numeric_limits<uint16_t>::max() (65535), the last token id
\* the trainer hands out; scaled so that a full dictionary is reachable.
MaxTokenId == 260
\* Stands for LongestPrefixMatcher16::MAX_BUCKET_SIZE (128); scaled so that a
\* full bucket is reachable.
MAX_BUCKET_SIZE == 1
\* Insert calls after the single-byte patterns when a matcher is driven directly.
MaxInserts == 2
\* compress_strings calls on one codec.
MaxCompressions == 2

\* ------------------------------------------------------- program constants
MAX_LENGTH == 16
MIN_MATCH == 8
FAST_COPY_SIZE == 16
FirstTokenId == 256
MinThreshold == 2
MiB == 1048576
CounterModulus == 65536
SizeofToken == 2
SizeofOffset == 4
SizeofBoundary == 8

Byte == 0..255
\* Values an out-of-bounds read may produce.
JunkBytes == {0, 255}
\* Marks an output-buffer byte no memcpy has written.
Untouched == 0 - 1

Min(a, b) == IF a < b THEN a ELSE b
Max(a, b) == IF a > b THEN a ELSE b
Last(s) == s[Len(s)]
\* s[from..to), 0-based as in the code
Slice(s, from, to) == SubSeq(s, from + 1, to)
\* the memory from s + offset to the end of the allocation
From(s, offset) == SubSeq(s, offset + 1, Len(s))
Rep(b, n) == [i \in 1..n |-> b]
IsPrefixOf(p, c) == Len(p) <= Len(c) /\ SubSeq(c, 1, Len(p)) = p

RECURSIVE Concat(_)
Concat(ss) == IF ss = <<>> THEN <<>> ELSE Head(ss) \o Concat(Tail(ss))

RECURSIVE SumLen(_)
SumLen(ss) == IF ss = <<>> THEN 0 ELSE Len(Head(ss)) + SumLen(Tail(ss))

\* ------------------------------------------------------------ 64-bit words
\* masks that zero nothing
MASKS_ALL == [len \in 0..8 |-> [i \in 1..8 |-> 255]]

\* MASKS[len]: the low `len` bytes set.
MASKS == [len \in 0..8 |-> [i \in 1..8 |-> IF i <= len THEN 255 ELSE 0]]

\* value & mask, for a mask whose bytes are 0x00 or 0xFF
And64(value, mask) == [i \in 1..8 |-> IF mask[i] = 255 THEN value[i] ELSE 0]

\* *reinterpret_cast<const uint64_t*>(bytes)
Load64(mem, junk) == [i \in 1..8 |-> IF i <= Len(mem) THEN mem[i] ELSE junk]

\* bytes_to_u64_le without its `& MASKS[len]`
bytes_to_u64_le_unmasked(mem, len, junk) == Load64(mem, junk)

bytes_to_u64_le(mem, len, junk) == And64(Load64(mem, junk), MASKS[len])

\* std::countr_zero(a ^ b) >> 3: the whole low-order bytes a and b share
shared_prefix_size(a, b) ==
    IF a = b THEN 8
    ELSE (CHOOSE i \in 1..8 : a[i] # b[i] /\ \A j \in 1..(i - 1) : a[j] = b[j]) - 1

is_prefix(text, prefix, text_size, prefix_size) ==
    prefix_size <= text_size /\ shared_prefix_size(text, prefix) >= prefix_size

\* ---------------------------------------------------------------- std::sort
\* std::sort with a comparator "the longer one first": every arrangement of
\* `s` in which no element comes after a shorter one. len maps an element to
\* its length; std::sort is not stable, so equal lengths land in any order.
SortOutcomes(s, len) ==
    LET n == Len(s)
        perms == {f \in [1..n -> 1..n] : \A i, j \in 1..n : i # j => f[i] # f[j]}
    IN {[i \in 1..n |-> s[f[i]]] : f \in
           {g \in perms : \A i, j \in 1..n : i < j => ~(len[s[g[i]]] < len[s[g[j]]])}}

\* ------------------------------------------------- LongestPrefixMatcher16
NoMatch == [found |-> FALSE, id |-> 0, len |-> 0]
Match(id, len) == [found |-> TRUE, id |-> id, len |-> len]

\* map.emplace(key, value): an existing entry stays
Emplace(map, key, value) == IF key \in DOMAIN map THEN map ELSE map @@ (key :> value)

EmptyLpm16 == [dictionary |-> <<>>, buckets |-> <<>>]

\* bucket entries are <<suffix, suffix_len, id>>; the sort compares std::get<1>
SuffixLen16(bucket) == [e \in {bucket[i] : i \in 1..Len(bucket)} |-> e[2]]

\* insert with `bucket.size() > MAX_BUCKET_SIZE` as its test
insert16_late_cap(lpm, mem, length, id, junk) ==
    IF length <= 8
    THEN LET value == bytes_to_u64_le(mem, length, junk)
         IN {[added |-> TRUE,
              lpm |-> [lpm EXCEPT !.dictionary = Emplace(@, <<value, length>>, id)]]}
    ELSE LET prefix == bytes_to_u64_le(mem, 8, junk)
             bucket == IF prefix \in DOMAIN lpm.buckets THEN lpm.buckets[prefix] ELSE <<>>
             created == IF prefix \in DOMAIN lpm.buckets THEN lpm.buckets
                        ELSE lpm.buckets @@ (prefix :> <<>>)
         IN IF Len(bucket) > MAX_BUCKET_SIZE
            THEN {[added |-> FALSE, lpm |-> [lpm EXCEPT !.buckets = created]]}
            ELSE LET suffix_len == length - 8
                     suffix == bytes_to_u64_le(From(mem, 8), suffix_len, junk)
                     grown == Append(bucket, <<suffix, suffix_len, id>>)
                 IN {[added |-> TRUE,
                      lpm |-> [lpm EXCEPT !.buckets = [created EXCEPT ![prefix] = sorted]]] :
                         sorted \in SortOutcomes(grown, SuffixLen16(grown))}

\* the outcomes of insert: [added, lpm]
insert16(lpm, mem, length, id, junk) ==
    IF length <= 8
    THEN LET value == bytes_to_u64_le(mem, length, junk)
         IN {[added |-> TRUE,
              lpm |-> [lpm EXCEPT !.dictionary = Emplace(@, <<value, length>>, id)]]}
    ELSE LET prefix == bytes_to_u64_le(mem, 8, junk)
             bucket == IF prefix \in DOMAIN lpm.buckets THEN lpm.buckets[prefix] ELSE <<>>
             \* buckets[prefix] creates the bucket when it is missing
             created == IF prefix \in DOMAIN lpm.buckets THEN lpm.buckets
                        ELSE lpm.buckets @@ (prefix :> <<>>)
         IN IF Len(bucket) >= MAX_BUCKET_SIZE
            THEN {[added |-> FALSE, lpm |-> [lpm EXCEPT !.buckets = created]]}
            ELSE LET suffix_len == length - 8
                     suffix == bytes_to_u64_le(From(mem, 8), suffix_len, junk)
                     grown == Append(bucket, <<suffix, suffix_len, id>>)
                 IN {[added |-> TRUE,
                      lpm |-> [lpm EXCEPT !.buckets = [created EXCEPT ![prefix] = sorted]]] :
                         sorted \in SortOutcomes(grown, SuffixLen16(grown))}

find_longest_match16(lpm, mem, length, junk) ==
    LET long ==
            IF length > 8
            THEN LET suffix_len == Min(length, 16) - 8
                     prefix == bytes_to_u64_le(mem, 8, junk)
                     suffix == bytes_to_u64_le(From(mem, 8), suffix_len, junk)
                 IN IF prefix \in DOMAIN lpm.buckets
                    THEN LET bucket == lpm.buckets[prefix]
                             hits == {i \in 1..Len(bucket) :
                                        is_prefix(suffix, bucket[i][1], suffix_len, bucket[i][2])}
                         IN IF hits = {} THEN NoMatch
                            ELSE LET first == CHOOSE i \in hits : \A j \in hits : i <= j
                                 IN Match(bucket[first][3], 8 + bucket[first][2])
                    ELSE NoMatch
            ELSE NoMatch
        prefix == bytes_to_u64_le(mem, 8, junk)
        \* prefix &= MASKS[len] for len = min(length, 8) down to 1
        keys == DOMAIN lpm.dictionary
        lens == {len \in 1..Min(length, 8) : <<And64(prefix, MASKS[len]), len>> \in keys}
    IN IF long.found THEN long
       ELSE IF lens = {} THEN NoMatch
       ELSE LET len == CHOOSE l \in lens : \A m \in lens : m <= l
            IN Match(lpm.dictionary[<<And64(prefix, MASKS[len]), len>>], len)

\* -------------------------------------------------- LongestPrefixMatcher<V>
\* the constructor: end_positions.push_back(0)
EmptyLpm == [short_match_lookup |-> <<>>, long_match_buckets |-> <<>>,
             dictionary |-> <<>>, end_positions |-> <<0>>]

\* end_positions[id + 1] - end_positions[id]
SuffixLen(lpm, id) == lpm.end_positions[id + 2] - lpm.end_positions[id + 1]

\* insert without its std::sort: a long pattern stays where it was appended
insert_unsorted(lpm, mem, length, id, junk) ==
    IF length > MIN_MATCH
    THEN LET prefix == bytes_to_u64_le(mem, MIN_MATCH, junk)
             dict == lpm.dictionary \o Slice(mem, MIN_MATCH, length)
             ends == Append(lpm.end_positions, Len(dict))
             grown == [lpm EXCEPT !.dictionary = dict, !.end_positions = ends]
             bucket == IF prefix \in DOMAIN lpm.long_match_buckets
                       THEN lpm.long_match_buckets[prefix] ELSE <<>>
         IN {[added |-> TRUE,
              lpm |-> [grown EXCEPT
                         !.long_match_buckets =
                             (prefix :> Append(bucket, id)) @@ lpm.long_match_buckets]]}
    ELSE LET prefix == bytes_to_u64_le(mem, length, junk)
         IN {[added |-> TRUE,
              lpm |-> [lpm EXCEPT
                         !.short_match_lookup = Emplace(@, <<prefix, length>>, id),
                         !.end_positions = Append(@, Len(lpm.dictionary))]]}

\* the outcomes of insert (it returns nothing: added is always TRUE)
insert(lpm, mem, length, id, junk) ==
    IF length > MIN_MATCH
    THEN LET prefix == bytes_to_u64_le(mem, MIN_MATCH, junk)
             dict == lpm.dictionary \o Slice(mem, MIN_MATCH, length)
             ends == Append(lpm.end_positions, Len(dict))
             grown == [lpm EXCEPT !.dictionary = dict, !.end_positions = ends]
             bucket == IF prefix \in DOMAIN lpm.long_match_buckets
                       THEN lpm.long_match_buckets[prefix] ELSE <<>>
             created == IF prefix \in DOMAIN lpm.long_match_buckets
                        THEN lpm.long_match_buckets
                        ELSE lpm.long_match_buckets @@ (prefix :> <<>>)
             ids == Append(bucket, id)
             len == [i \in {ids[k] : k \in 1..Len(ids)} |-> SuffixLen(grown, i)]
         IN {[added |-> TRUE,
              lpm |-> [grown EXCEPT !.long_match_buckets = [created EXCEPT ![prefix] = sorted]]] :
                 sorted \in SortOutcomes(ids, len)}
    ELSE LET prefix == bytes_to_u64_le(mem, length, junk)
         IN {[added |-> TRUE,
              lpm |-> [lpm EXCEPT
                         !.short_match_lookup = Emplace(@, <<prefix, length>>, id),
                         !.end_positions = Append(@, Len(lpm.dictionary))]]}

find_longest_match(lpm, mem, length, junk) ==
    LET long ==
            IF length > MIN_MATCH
            THEN LET prefix == bytes_to_u64_le(mem, MIN_MATCH, junk)
                 IN IF prefix \in DOMAIN lpm.long_match_buckets
                    THEN LET bucket == lpm.long_match_buckets[prefix]
                             \* length >= MIN_MATCH + suffix_len && memcmp(...) == 0
                             hits == {i \in 1..Len(bucket) :
                                        LET start == lpm.end_positions[bucket[i] + 1]
                                            suffix_len == SuffixLen(lpm, bucket[i])
                                        IN /\ length >= MIN_MATCH + suffix_len
                                           /\ Slice(mem, MIN_MATCH, MIN_MATCH + suffix_len)
                                                = Slice(lpm.dictionary, start, start + suffix_len)}
                         IN IF hits = {} THEN NoMatch
                            ELSE LET first == CHOOSE i \in hits : \A j \in hits : i <= j
                                 IN Match(bucket[first], MIN_MATCH + SuffixLen(lpm, bucket[first]))
                    ELSE NoMatch
            ELSE NoMatch
        keys == DOMAIN lpm.short_match_lookup
        lens == {len \in 1..Min(length, MIN_MATCH) : <<bytes_to_u64_le(mem, len, junk), len>> \in keys}
    IN IF long.found THEN long
       ELSE IF lens = {} THEN NoMatch
       ELSE LET len == CHOOSE l \in lens : \A m \in lens : m <= l
            IN Match(lpm.short_match_lookup[<<bytes_to_u64_le(mem, len, junk), len>>], len)

\* ------------------------------------------------ the two variants, by name
Variants == {"OnPair16", "OnPair"}

NewLpm(v) == IF v = "OnPair16" THEN EmptyLpm16 ELSE EmptyLpm

LpmInsert(v, lpm, mem, length, id, junk) ==
    IF v = "OnPair16" THEN insert16(lpm, mem, length, id, junk)
    ELSE insert(lpm, mem, length, id, junk)

\* a lookup that stops at the single-byte token
LpmFindFirstByte(v, lpm, mem, length, junk) == Match(mem[1], 1)

LpmFind(v, lpm, mem, length, junk) ==
    IF v = "OnPair16" THEN find_longest_match16(lpm, mem, length, junk)
    ELSE find_longest_match(lpm, mem, length, junk)

\* for (i = 0; i <= 255; i++) lpm.insert(&value, 1, i): `value` is one byte on
\* the stack, the other seven bytes of the load are whatever lies behind it
\* (evaluated by halves, which comes to the same left-to-right order; `half` is
\* compared with itself only so that it is evaluated before the second half)
RECURSIVE InsertSingleBytes(_, _, _, _, _)
InsertSingleBytes(v, lpm, from, to, junk) ==
    IF from > to THEN lpm
    ELSE IF from = to
    THEN (CHOOSE r \in LpmInsert(v, lpm, <<from>>, 1, from, junk) : TRUE).lpm
    ELSE LET mid == (from + to) \div 2
             half == InsertSingleBytes(v, lpm, from, mid, junk)
         IN IF half = half THEN InsertSingleBytes(v, half, mid + 1, to, junk) ELSE lpm

\* ------------------------------------------------------------------- state
VARIABLES
    variant,             \* which codec / matcher: "OnPair16" or "OnPair"
    strings,             \* the argument of compress_strings
    pc,                  \* where the codec (or the directly driven matcher) is
    compressed_data,     \* codec: token ids
    string_boundaries,   \* codec: per-string offsets into compressed_data
    dictionary_data,     \* codec: token bytes (OnPair::dictionary)
    dictionary_offsets,  \* codec: token offsets (OnPair::token_boundaries)
    lpm,                 \* the matcher train_dictionary builds and parse_data reads
    frequency,           \* trainer: pair -> count
    next_token_id,       \* trainer
    full_dictionary,     \* trainer
    shuffled_indices,    \* trainer: the visit order
    threshold,           \* trainer
    index,               \* trainer: place in shuffled_indices; parser: string i
    in_string,           \* trainer: inside the while loop of a string
    pos,                 \* trainer / parser cursor into data
    previous_token_id,   \* trainer
    previous_length,     \* trainer
    ret,                 \* what the last const operation returned and wrote
    stored,              \* history: stored[id + 1] is the pattern inserted under id
    lpm_calls,           \* history: matcher calls made so far
    readers              \* the calls in flight on the sealed codec, one per thread

codec == <<compressed_data, string_boundaries, dictionary_data, dictionary_offsets>>
trainer == <<frequency, next_token_id, full_dictionary, shuffled_indices, threshold,
             index, in_string, pos, previous_token_id, previous_length>>
vars == <<variant, strings, pc, codec, lpm, trainer, ret, stored, lpm_calls, readers>>

\* Threads that read a sealed codec, and a thread with no call made.
Threads == {"t1", "t2"}
NoCall == [state |-> "idle", op |-> "none", index |-> 0, at |-> 0, data_end |-> 0,
           st |-> [size |-> 0, buffer |-> <<>>, hi |-> 0, read |-> 0]]

NoRet == [op |-> "none"]
NoCalls == [find |-> 0, insert |-> 0]
SingleBytes == [i \in 1..256 |-> <<i - 1>>]

\* ------------------------------------------- a matcher driven on its own
SampleBytes == <<97, 98>>
a == SampleBytes[1]
b == SampleBytes[2]

\* Patterns offered to insert: short ones, one with a trailing zero byte, long
\* ones sharing the 8-byte prefix key, two of equal length, and (unbounded
\* matcher only) one longer than 16 bytes.
PatternPool(v) ==
    {<<a, a>>, <<a, 0>>, Rep(a, 8),
     Rep(a, 8) \o <<b>>, Rep(a, 8) \o <<a>>, Rep(a, 8) \o <<b, 0>>,
     Rep(a, 8) \o <<b>> \o Rep(a, 7)}
    \cup (IF v = "OnPair" THEN {Rep(a, 8) \o <<b>> \o Rep(a, 8)} ELSE {})

\* Cursors searched: every pattern, alone and followed by more bytes.
Cursors ==
    {p \o t : p \in PatternPool("OnPair") \cup {<<a>>, <<0>>, <<b>>},
              t \in {<<>>, <<a>>, <<0>>, <<b, a>>}}

InitLpm ==
    /\ variant \in Variants
    /\ pc = "lpm_new"
    /\ lpm = NewLpm(variant)
    /\ strings = <<>>
    /\ compressed_data = <<>> /\ string_boundaries = <<>>
    /\ dictionary_data = <<>> /\ dictionary_offsets = <<>>
    /\ frequency = <<>> /\ next_token_id = FirstTokenId /\ full_dictionary = FALSE
    /\ shuffled_indices = <<>> /\ threshold = MinThreshold
    /\ index = 0 /\ in_string = FALSE /\ pos = 0
    /\ previous_token_id = 0 /\ previous_length = 0
    /\ ret = NoRet
    /\ stored = <<>>
    /\ lpm_calls = NoCalls
    /\ readers = [t \in Threads |-> NoCall]

\* the 256 single-byte inserts every user of a matcher starts with
LpmInsertSingleBytes ==
    /\ pc = "lpm_new"
    /\ \E junk \in JunkBytes : lpm' = InsertSingleBytes(variant, lpm, 0, 255, junk)
    /\ stored' = SingleBytes
    /\ lpm_calls' = [lpm_calls EXCEPT !.insert = 256]
    /\ pc' = "lpm"
    /\ UNCHANGED <<readers, variant, strings, codec, trainer, ret>>

\* insert(pattern, Len(pattern), id) with the next unused id
LpmInsertCall ==
    /\ pc = "lpm"
    /\ lpm_calls.insert < 256 + MaxInserts
    /\ \E pattern \in PatternPool(variant), junk \in JunkBytes :
         \E r \in LpmInsert(variant, lpm, pattern, Len(pattern), Len(stored), junk) :
            /\ lpm' = r.lpm
            /\ stored' = IF r.added THEN Append(stored, pattern) ELSE stored
            /\ ret' = [op |-> "insert", added |-> r.added, pattern |-> pattern]
    /\ lpm_calls' = [lpm_calls EXCEPT !.insert = @ + 1]
    /\ UNCHANGED <<readers, variant, strings, pc, codec, trainer>>

NextLpm == LpmInsertSingleBytes \/ LpmInsertCall

SpecLpm == InitLpm /\ [][NextLpm]_vars

\* --------------------------------------------------------------- the codec
\* flatten_strings: the bytes of all strings and the prefix sums of their lengths
RECURSIVE EndPositions(_)
EndPositions(ss) ==
    IF ss = <<>> THEN <<0>>
    ELSE LET front == EndPositions(SubSeq(ss, 1, Len(ss) - 1))
         IN Append(front, Last(front) + Len(Last(ss)))

flatten_strings(ss) == [data |-> Concat(ss), end_positions |-> EndPositions(ss)]

data == flatten_strings(strings).data
end_positions == flatten_strings(strings).end_positions

\* Strings offered to compress_strings: the empty string and two runs long
\* enough to grow tokens past 8 and 16 bytes, one of them ending in zero bytes.
StringPool == {<<>>, Rep(a, 31) \o Rep(0, 3), Rep(a, 45)}

Inputs == UNION {[1..n -> StringPool] : n \in 0..MaxStrings}

\* std::shuffle: any order of 0..n-1
Shuffles(n) ==
    {f \in [1..n -> 0..(n - 1)] : \A i, j \in 1..n : i # j => f[i] # f[j]}

RECURSIVE FloorLog2(_)
FloorLog2(n) == IF n < 2 THEN 0 ELSE 1 + FloorLog2(n \div 2)

\* static_cast<size_t>(std::fmax(std::log2(total / (1024.0 * 1024.0)), 2.0))
Threshold(total) ==
    IF total < MiB THEN MinThreshold
    ELSE Max(FloorLog2(total \div MiB), MinThreshold)

Init ==
    /\ variant \in Variants
    /\ pc = "fresh"
    /\ lpm = NewLpm(variant)
    /\ strings = <<>>
    /\ compressed_data = <<>> /\ string_boundaries = <<>>
    /\ dictionary_data = <<>> /\ dictionary_offsets = <<>>
    /\ frequency = <<>> /\ next_token_id = FirstTokenId /\ full_dictionary = FALSE
    /\ shuffled_indices = <<>> /\ threshold = MinThreshold
    /\ index = 0 /\ in_string = FALSE /\ pos = 0
    /\ previous_token_id = 0 /\ previous_length = 0
    /\ ret = NoRet
    /\ stored = <<>>
    /\ lpm_calls = NoCalls
    /\ readers = [t \in Threads |-> NoCall]

\* compress_strings(input) up to the first iteration of the training loop:
\* flatten, the single-byte tokens, the shuffle and the threshold
Compress(inputs) ==
    /\ \E junk \in JunkBytes : lpm' = InsertSingleBytes(variant, NewLpm(variant), 0, 255, junk)
    /\ \E input \in inputs :
         /\ strings' = input
         /\ shuffled_indices' \in Shuffles(Len(input))
         /\ threshold' = Threshold(Last(flatten_strings(input).end_positions))
    /\ dictionary_data' = dictionary_data \o [i \in 1..256 |-> i - 1]
    /\ dictionary_offsets' =
          dictionary_offsets \o <<0>> \o [i \in 1..256 |-> Len(dictionary_data) + i]
    /\ frequency' = <<>>
    /\ next_token_id' = FirstTokenId
    /\ full_dictionary' = FALSE
    /\ index' = 1 /\ in_string' = FALSE
    /\ stored' = SingleBytes
    /\ lpm_calls' = [lpm_calls EXCEPT !.insert = @ + 256]
    /\ pc' = "train"
    /\ UNCHANGED <<readers, variant, compressed_data, string_boundaries, pos,
                   previous_token_id, previous_length, ret>>

\* compress_strings on a newly constructed codec
CompressStrings == pc = "fresh" /\ Compress(Inputs)

\* The compress_strings calls made so far: each pushes one 0 onto dictionary_offsets.
Compressions == Cardinality({k \in DOMAIN dictionary_offsets : dictionary_offsets[k] = 0})

\* Strings offered to a further compress_strings call on the same codec.
AgainInputs == {<<<<>>>>, <<Rep(a, 3)>>}

\* compress_strings called again on a codec that already holds compressed data
CompressAgain ==
    /\ pc = "sealed" /\ Compressions < MaxCompressions
    /\ Compress(AgainInputs)

\* the start of the data taken for the start of the string
TrainStartOfData == end_positions[1]

\* the end of the data taken for the end of the string
TrainEndOfData == Last(end_positions)

\* the string the training loop is at
TrainStart == end_positions[shuffled_indices[index] + 1]
TrainEnd == end_positions[shuffled_indices[index] + 2]

\* train_dictionary returns and parse_data begins: string_boundaries.push_back(0)
BeginParse ==
    /\ pc' = "parse"
    /\ string_boundaries' = Append(string_boundaries, 0)
    /\ index' = 0
    /\ pos' = 0
    /\ in_string' = FALSE

\* if (full_dictionary) break;
TrainBreakFull ==
    /\ pc = "train" /\ ~in_string /\ index <= Len(shuffled_indices)
    /\ full_dictionary
    /\ BeginParse
    /\ UNCHANGED <<readers, variant, strings, compressed_data, dictionary_data, dictionary_offsets,
                   lpm, frequency, next_token_id, full_dictionary, shuffled_indices,
                   threshold, previous_token_id, previous_length, ret, stored, lpm_calls>>

\* if (start == end) continue;
TrainSkipEmpty ==
    /\ pc = "train" /\ ~in_string /\ index <= Len(shuffled_indices)
    /\ ~full_dictionary
    /\ TrainStart = TrainEnd
    /\ index' = index + 1
    /\ UNCHANGED <<readers, variant, strings, pc, codec, lpm, frequency, next_token_id,
                   full_dictionary, shuffled_indices, threshold, in_string, pos,
                   previous_token_id, previous_length, ret, stored, lpm_calls>>

\* the first match of a string
TrainPrimer ==
    /\ pc = "train" /\ ~in_string /\ index <= Len(shuffled_indices)
    /\ ~full_dictionary
    /\ TrainStart # TrainEnd
    /\ \E junk \in JunkBytes :
         \E mem \in {From(data, TrainStart)}, length \in {TrainEnd - TrainStart} :
         \E match \in {LpmFind(variant, lpm, mem, length, junk)} :
            /\ match.found
            /\ previous_token_id' = match.id
            /\ previous_length' = match.len
            /\ pos' = TrainStart + match.len
            /\ in_string' = (TrainStart + match.len < TrainEnd)
            /\ index' = IF TrainStart + match.len < TrainEnd THEN index ELSE index + 1
    /\ lpm_calls' = [lpm_calls EXCEPT !.find = @ + 1]
    /\ UNCHANGED <<readers, variant, strings, pc, codec, lpm, frequency, next_token_id,
                   full_dictionary, shuffled_indices, threshold, ret, stored>>

\* the counter bumped by two
CountTwice(freq, pair) == ((IF pair \in DOMAIN freq THEN freq[pair] ELSE 0) + 2) % CounterModulus

\* frequency[token_pair]++ on a uint16_t count
Count(freq, pair) == ((IF pair \in DOMAIN freq THEN freq[pair] ELSE 0) + 1) % CounterModulus

SetCount(freq, pair, n) == [p \in DOMAIN freq \cup {pair} |-> IF p = pair THEN n ELSE freq[p]]

\* the erase left out
EraseNone(freq, pair) == freq

\* frequency.erase(token_pair)
Erase(freq, pair) == [p \in DOMAIN freq \ {pair} |-> freq[p]]

\* the test left out
LengthGateOff(v, match_length, prev_length) == TRUE

\* if (match_length + previous_length <= MAX_LENGTH), which only OnPair16 asks
LengthGate(v, match_length, prev_length) ==
    v = "OnPair16" => match_length + prev_length <= MAX_LENGTH

\* the push_back moved before the token's bytes are appended
PushOffsetBefore(offsets, dict_before, merged) == Append(offsets, Len(dict_before))

\* dictionary_offsets.push_back(dictionary_data.size()), after the token's
\* bytes were appended to dictionary_data
PushOffset(offsets, dict_before, merged) == Append(offsets, Len(dict_before) + Len(merged))

\* the test for the last id, one too late
IsFullLate(added, token_id) == added /\ token_id = MaxTokenId + 1

\* if (next_token_id == std::numeric_limits<uint16_t>::max()) full_dictionary = true
IsFull(added, token_id) == added /\ token_id = MaxTokenId

\* insert called with the previous token's length for the pattern's length
TrainOutcomesPrevOnly(match, junk) ==
    LET token_pair == <<previous_token_id, match.id>>
        counted == SetCount(frequency, token_pair, Count(frequency, token_pair))
        from == pos - previous_length
        length == previous_length + match.len
        same == [added |-> FALSE, tried |-> FALSE, lpm |-> lpm, frequency |-> frequency]
    IN IF ~LengthGate(variant, match.len, previous_length) THEN {same}
       ELSE IF counted[token_pair] < threshold
       THEN {[same EXCEPT !.frequency = counted]}
       ELSE UNION {{[added |-> r.added, tried |-> TRUE, lpm |-> r.lpm, frequency |-> counted] :
                      r \in LpmInsert(variant, lpm, mem, previous_length, next_token_id, junk)} :
                   mem \in {From(data, from)}}

\* what one pass of the while loop does with a match: the successor values of
\* the trainer's variables, one record per outcome of the insert
TrainOutcomes(match, junk) ==
    LET token_pair == <<previous_token_id, match.id>>
        counted == SetCount(frequency, token_pair, Count(frequency, token_pair))
        from == pos - previous_length
        length == previous_length + match.len
        same == [added |-> FALSE, tried |-> FALSE, lpm |-> lpm, frequency |-> frequency]
    IN IF ~LengthGate(variant, match.len, previous_length) THEN {same}
       ELSE IF counted[token_pair] < threshold
       THEN {[same EXCEPT !.frequency = counted]}
       ELSE UNION {{[added |-> r.added, tried |-> TRUE, lpm |-> r.lpm, frequency |-> counted] :
                      r \in LpmInsert(variant, lpm, mem, length, next_token_id, junk)} :
                   mem \in {From(data, from)}}

\* the new token made the previous token whenever insert was called, as if
\* insert could not fail
NextPreviousTried(o, merged_id, merged_len, match) ==
    IF o.tried THEN [id |-> merged_id, len |-> merged_len]
    ELSE [id |-> match.id, len |-> match.len]

\* previous_token_id, previous_length after the pass: the new token when one
\* was added, and the match (if (!added_token)) otherwise
NextPrevious(o, merged_id, merged_len, match) ==
    IF o.added THEN [id |-> merged_id, len |-> merged_len]
    ELSE [id |-> match.id, len |-> match.len]

\* History: what the last pass of the while loop saw and did. prev is the
\* previous token as the pass found it, pattern the bytes of prev and match
\* together, tried whether lpm.insert was called, added what it returned.
Observation(match, merged, o) ==
    [op |-> "observe", prev_id |-> previous_token_id, prev_len |-> previous_length,
     match_id |-> match.id, match_len |-> match.len, pattern |-> merged,
     tried |-> o.tried, added |-> o.added]

\* one pass of the while loop
TrainStep ==
    /\ pc = "train" /\ in_string /\ pos < TrainEnd
    /\ \E junk \in JunkBytes :
         \E mem \in {From(data, pos)}, length \in {TrainEnd - pos} :
         \E match \in {LpmFind(variant, lpm, mem, length, junk)} :
            /\ match.found
            /\ \E o \in TrainOutcomes(match, junk),
                  merged \in {Slice(data, pos - previous_length, pos + match.len)} :
                 LET full == IsFull(o.added, next_token_id)
                     done == full \/ pos + match.len >= TrainEnd
                 IN /\ lpm' = o.lpm
                    /\ lpm_calls' = [find |-> lpm_calls.find + 1,
                                     insert |-> lpm_calls.insert + (IF o.tried THEN 1 ELSE 0)]
                    /\ dictionary_data' =
                          IF o.added THEN dictionary_data \o merged ELSE dictionary_data
                    /\ dictionary_offsets' =
                          IF o.added
                          THEN PushOffset(dictionary_offsets, dictionary_data, merged)
                          ELSE dictionary_offsets
                    /\ stored' = IF o.added THEN Append(stored, merged) ELSE stored
                    /\ frequency' =
                          IF o.added THEN Erase(o.frequency, <<previous_token_id, match.id>>)
                          ELSE o.frequency
                    /\ previous_token_id' =
                          NextPrevious(o, next_token_id, Len(merged), match).id
                    /\ previous_length' =
                          NextPrevious(o, next_token_id, Len(merged), match).len
                    /\ full_dictionary' = full
                    /\ next_token_id' =
                          IF o.added /\ ~full THEN next_token_id + 1 ELSE next_token_id
                    \* the break on a full dictionary comes before pos += match_length
                    /\ pos' = IF full THEN pos ELSE pos + match.len
                    /\ in_string' = ~done
                    /\ index' = IF done THEN index + 1 ELSE index
                    /\ ret' = Observation(match, merged, o)
    /\ UNCHANGED <<readers, variant, strings, pc, compressed_data, string_boundaries,
                   shuffled_indices, threshold>>

\* the visit order is exhausted
TrainReturn ==
    /\ pc = "train" /\ ~in_string /\ index > Len(shuffled_indices)
    /\ BeginParse
    /\ UNCHANGED <<readers, variant, strings, compressed_data, dictionary_data, dictionary_offsets,
                   lpm, frequency, next_token_id, full_dictionary, shuffled_indices,
                   threshold, previous_token_id, previous_length, ret, stored, lpm_calls>>

\* parse_data is at string `index` (0-based)
ParseStart == end_positions[index + 1]
ParseEnd == end_positions[index + 2]

\* an empty string skipped the way the trainer skips it: no boundary pushed
ParseEmptyNoBoundary ==
    /\ pc = "parse" /\ index < Len(end_positions) - 1
    /\ ParseStart = ParseEnd
    /\ index' = index + 1
    /\ pos' = ParseEnd
    /\ UNCHANGED <<readers, variant, strings, pc, codec, lpm, frequency, next_token_id,
                   full_dictionary, shuffled_indices, threshold, in_string,
                   previous_token_id, previous_length, ret, stored, lpm_calls>>

\* an empty string: only its boundary is pushed
ParseEmpty ==
    /\ pc = "parse" /\ index < Len(end_positions) - 1
    /\ ParseStart = ParseEnd
    /\ string_boundaries' = Append(string_boundaries, Len(compressed_data))
    /\ index' = index + 1
    /\ pos' = ParseEnd
    /\ UNCHANGED <<readers, variant, strings, pc, compressed_data, dictionary_data,
                   dictionary_offsets, lpm, frequency, next_token_id, full_dictionary,
                   shuffled_indices, threshold, in_string, previous_token_id,
                   previous_length, ret, stored, lpm_calls>>

\* one pass of the parser's while loop: one token; after the last token of the
\* string its boundary is pushed and the next string begins (pos = start)
ParseToken ==
    /\ pc = "parse" /\ index < Len(end_positions) - 1
    /\ ParseStart # ParseEnd
    /\ pos < ParseEnd
    /\ \E junk \in JunkBytes :
         \E mem \in {From(data, pos)}, length \in {ParseEnd - pos} :
         \E match \in {LpmFind(variant, lpm, mem, length, junk)} :
         LET tokens == Append(compressed_data, match.id)
             done == pos + match.len >= ParseEnd
         IN /\ match.found
            /\ compressed_data' = tokens
            /\ pos' = IF done THEN ParseEnd ELSE pos + match.len
            /\ string_boundaries' =
                  IF done THEN Append(string_boundaries, Len(tokens)) ELSE string_boundaries
            /\ index' = IF done THEN index + 1 ELSE index
    /\ lpm_calls' = [lpm_calls EXCEPT !.find = @ + 1]
    /\ UNCHANGED <<readers, variant, strings, pc, dictionary_data, dictionary_offsets, lpm,
                   frequency, next_token_id, full_dictionary, shuffled_indices, threshold,
                   in_string, previous_token_id, previous_length, ret, stored>>

\* parse_data and with it compress_bytes return: the matcher, a local of
\* compress_bytes, is destroyed
ParseReturn ==
    /\ pc = "parse" /\ index >= Len(end_positions) - 1
    /\ pc' = "sealed"
    /\ lpm' = NewLpm(variant)
    /\ stored' = <<>>
    /\ UNCHANGED <<readers, variant, strings, codec, trainer, ret, lpm_calls>>

\* ------------------------------------------------------------ decompression
\* dict_ptr[at]: a read past dictionary_data yields junk
DictByte(at, junk) == IF at < Len(dictionary_data) THEN dictionary_data[at + 1] ELSE junk

\* A call's progress: the bytes counted so far, the caller's buffer, the end of
\* the highest range of the buffer written so far, and the end of the highest
\* range of dict_ptr read so far.
NewBuffer(capacity) == [size |-> 0, buffer |-> Rep(Untouched, capacity), hi |-> 0, read |-> 0]

\* std::memcpy(buffer + dst, dict_ptr + src, n)
Memcpy(st, dst, src, n, junk) ==
    IF n = 0 THEN st
    ELSE [st EXCEPT
            !.buffer = [j \in DOMAIN @ |->
                          IF dst < j /\ j <= dst + n THEN DictByte(src + (j - dst) - 1, junk)
                          ELSE @[j]],
            !.hi = Max(@, dst + n),
            !.read = Max(@, src + n)]

\* the memcpy one byte wider than MAX_LENGTH
CopyToken16Wide(st, token_id, junk) ==
    LET dict_start == dictionary_offsets[token_id + 1]
        dict_end == dictionary_offsets[token_id + 2]
        length == dict_end - dict_start
    IN [Memcpy(st, st.size, dict_start, MAX_LENGTH + 1, junk) EXCEPT !.size = @ + length]

\* the body of OnPair16's loops: one memcpy of MAX_LENGTH bytes
CopyToken16(st, token_id, junk) ==
    LET dict_start == dictionary_offsets[token_id + 1]
        dict_end == dictionary_offsets[token_id + 2]
        length == dict_end - dict_start
    IN [Memcpy(st, st.size, dict_start, MAX_LENGTH, junk) EXCEPT !.size = @ + length]

\* the fast copy alone, without the copy of the rest of a longer token
CopyTokenFastOnly(st, token_id, junk) ==
    LET dict_start == dictionary_offsets[token_id + 1]
        dict_end == dictionary_offsets[token_id + 2]
        length == dict_end - dict_start
    IN [Memcpy(st, st.size, dict_start, FAST_COPY_SIZE, junk) EXCEPT !.size = @ + length]

\* the body of OnPair's loops: FAST_COPY_SIZE bytes, then the rest of a longer token
CopyToken(st, token_id, junk) ==
    LET dict_start == dictionary_offsets[token_id + 1]
        dict_end == dictionary_offsets[token_id + 2]
        length == dict_end - dict_start
        fast == Memcpy(st, st.size, dict_start, FAST_COPY_SIZE, junk)
        rest == IF length > FAST_COPY_SIZE
                THEN Memcpy(fast, st.size + FAST_COPY_SIZE, dict_start + FAST_COPY_SIZE,
                            length - FAST_COPY_SIZE, junk)
                ELSE fast
    IN [rest EXCEPT !.size = @ + length]

\* for (i = data_start; i < data_end; i++)
RECURSIVE CopyTokens(_, _, _, _, _)
CopyTokens(v, st, i, data_end, junk) ==
    IF i >= data_end THEN st
    ELSE LET token_id == compressed_data[i + 1]
             next == IF v = "OnPair16" THEN CopyToken16(st, token_id, junk)
                     ELSE CopyToken(st, token_id, junk)
         IN CopyTokens(v, next, i + 1, data_end, junk)

decompress_string(v, i, capacity, junk) ==
    CopyTokens(v, NewBuffer(capacity), string_boundaries[i + 1], string_boundaries[i + 2], junk)

\* the loop over the token stream stopping one token early
decompress_all_short(v, capacity, junk) ==
    CopyTokens(v, NewBuffer(capacity), 0, Len(compressed_data) - 1, junk)

decompress_all(v, capacity, junk) ==
    CopyTokens(v, NewBuffer(capacity), 0, Len(compressed_data), junk)

space_used16 ==
    Len(compressed_data) * SizeofToken + Len(dictionary_data)
        + Len(dictionary_offsets) * SizeofOffset + Len(string_boundaries) * SizeofBoundary

space_used ==
    Len(compressed_data) * SizeofToken + Len(dictionary_data)
        + Len(dictionary_offsets) * SizeofOffset

\* decompress_string(i, buffer) into a buffer with FAST_COPY_SIZE bytes of slack
DecompressString ==
    /\ pc = "sealed"
    /\ \E i \in 0..(Len(strings) - 1), junk \in JunkBytes :
         ret' = [op |-> "decompress_string", index |-> i] @@
                decompress_string(variant, i, Len(strings[i + 1]) + FAST_COPY_SIZE, junk)
    /\ UNCHANGED <<readers, variant, strings, pc, codec, lpm, trainer, stored, lpm_calls>>

\* decompress_all(buffer) into a buffer with FAST_COPY_SIZE bytes of slack
DecompressAll ==
    /\ pc = "sealed"
    /\ \E junk \in JunkBytes :
         ret' = [op |-> "decompress_all"] @@
                decompress_all(variant, SumLen(strings) + FAST_COPY_SIZE, junk)
    /\ UNCHANGED <<readers, variant, strings, pc, codec, lpm, trainer, stored, lpm_calls>>

SpaceUsed ==
    /\ pc = "sealed"
    /\ ret' = [op |-> "space_used",
               size |-> IF variant = "OnPair16" THEN space_used16 ELSE space_used]
    /\ UNCHANGED <<readers, variant, strings, pc, codec, lpm, trainer, stored, lpm_calls>>

Next ==
    \/ CompressStrings
    \/ TrainBreakFull
    \/ TrainSkipEmpty
    \/ TrainPrimer
    \/ TrainStep
    \/ TrainReturn
    \/ ParseEmpty
    \/ ParseToken
    \/ ParseReturn
    \/ DecompressString
    \/ DecompressAll
    \/ SpaceUsed

Spec == Init /\ [][Next]_vars

\* compress_bytes runs to its return once it is called: the trainer's and the
\* parser's loops are straight-line code that no other thread holds up.
Running ==
    \/ TrainBreakFull \/ TrainSkipEmpty \/ TrainPrimer \/ TrainStep \/ TrainReturn
    \/ ParseEmpty \/ ParseToken \/ ParseReturn

SpecFair == Init /\ [][Next]_vars /\ WF_vars(Running)

\* ------------------------------------------------ a codec compressed again
NextReuse == Next \/ CompressAgain

SpecReuse == Init /\ [][NextReuse]_vars

\* ------------------------------------------------- calls running concurrently
\* decompress_string, decompress_all and space_used are const member
\* functions: threads may run them at once on a sealed codec. A call's
\* locals (token cursor, size) and its caller's buffer are its own; one pass of
\* the call's loop is one step.

\* a single `size` shared by all calls
SharedSize(rs, t) == rs["t1"].st.size

\* size_t size = 0, as the call of thread t sees it
LocalSize(rs, t) == rs[t].st.size

NewCall(op, i, at, data_end, capacity) ==
    [state |-> "run", op |-> op, index |-> i, at |-> at, data_end |-> data_end,
     st |-> NewBuffer(capacity)]

\* the calls a thread can make, at their entry
Calls ==
    {NewCall("decompress_string", i, string_boundaries[i + 1], string_boundaries[i + 2],
             Len(strings[i + 1]) + FAST_COPY_SIZE) : i \in 0..(Len(strings) - 1)}
    \cup {NewCall("decompress_all", 0, 0, Len(compressed_data),
                  SumLen(strings) + FAST_COPY_SIZE)}
    \cup {NewCall("space_used", 0, 0, 0, 0)}

\* thread t enters a call
ReadBegin(t) ==
    /\ pc = "sealed" /\ readers[t].state # "run"
    /\ \E call \in Calls : readers' = [readers EXCEPT ![t] = call]
    /\ UNCHANGED <<variant, strings, pc, codec, lpm, trainer, ret, stored, lpm_calls>>

\* one pass of the loop of thread t's decompress_string; the whole loop of its
\* decompress_all
ReadStep(t) ==
    /\ readers[t].state = "run" /\ readers[t].op # "space_used"
    /\ readers[t].at < readers[t].data_end
    /\ \E junk \in JunkBytes :
         LET call == readers[t]
             st == [call.st EXCEPT !.size = LocalSize(readers, t)]
             to == IF call.op = "decompress_all" THEN call.data_end ELSE call.at + 1
         IN readers' = [readers EXCEPT
                          ![t].st = CopyTokens(variant, st, call.at, to, junk),
                          ![t].at = to]
    /\ UNCHANGED <<variant, strings, pc, codec, lpm, trainer, ret, stored, lpm_calls>>

\* what thread t's call returns and leaves in its caller's buffer
Returned(t) ==
    IF readers[t].op = "space_used"
    THEN [size |-> IF variant = "OnPair16" THEN space_used16 ELSE space_used,
          buffer |-> <<>>, hi |-> 0, read |-> 0]
    ELSE readers[t].st

\* thread t's call returns
ReadEnd(t) ==
    /\ readers[t].state = "run"
    /\ readers[t].at >= readers[t].data_end
    /\ readers' = [readers EXCEPT ![t] = NoCall]
    /\ UNCHANGED <<variant, strings, pc, codec, lpm, trainer, ret, stored, lpm_calls>>

NextRead ==
    \/ CompressStrings
    \/ TrainBreakFull
    \/ TrainSkipEmpty
    \/ TrainPrimer
    \/ TrainStep
    \/ TrainReturn
    \/ ParseEmpty
    \/ ParseToken
    \/ ParseReturn
    \/ \E t \in Threads : ReadBegin(t)
    \/ \E t \in Threads : ReadStep(t)
    \/ \E t \in Threads : ReadEnd(t)

SpecRead == Init /\ [][NextRead]_vars

\* ------------------------------------------------------------------ claims
\* What find_longest_match returns for cursor c (c is all the memory there is).
Found(c, junk) == LpmFind(variant, lpm, c, Len(c), junk)

Buckets == IF variant = "OnPair16" THEN lpm.buckets ELSE lpm.long_match_buckets

\* C8 as stated (both matchers): no bucket ever holds more than
\* MAX_BUCKET_SIZE entries.
C8_BucketCapBothMatchers ==
    \A k \in DOMAIN Buckets : Len(Buckets[k]) <= MAX_BUCKET_SIZE

\* C8 amended (the bounded matcher only): no bucket of LongestPrefixMatcher16
\* holds more than MAX_BUCKET_SIZE entries, and an insert into a bucket
\* holding MAX_BUCKET_SIZE entries returns false and leaves every bucket as it is.
C8_BucketCap16 ==
    /\ [](variant = "OnPair16" => C8_BucketCapBothMatchers)
    /\ [][(/\ variant = "OnPair16"
           /\ pc = "lpm"
           /\ ret'.op = "insert"
           /\ LET key == bytes_to_u64_le(ret'.pattern, 8, 0)
              IN /\ Len(ret'.pattern) > 8
                 /\ key \in DOMAIN lpm.buckets
                 /\ Len(lpm.buckets[key]) >= MAX_BUCKET_SIZE)
          => (~ret'.added /\ lpm' = lpm /\ stored' = stored)]_vars

\* C8's case: an insert into a full bucket of the bounded matcher was refused.
C8_Witness ==
    /\ variant = "OnPair16" /\ pc = "lpm"
    /\ ret.op = "insert" /\ ~ret.added
    /\ \E k \in DOMAIN lpm.buckets : Len(lpm.buckets[k]) = MAX_BUCKET_SIZE

\* The bytes of token id, and the bytes a run of tokens stands for.
TokenBytes(id) == Slice(dictionary_data, dictionary_offsets[id + 1], dictionary_offsets[id + 2])
NumTokens == Len(dictionary_offsets) - 1
Expand(tokens) == Concat([k \in 1..Len(tokens) |-> TokenBytes(tokens[k])])
NonDecreasing(s) == \A k \in 1..(Len(s) - 1) : s[k] <= s[k + 1]
Decompressed == SubSeq(ret.buffer, 1, ret.size)

\* C1 (round trip): after compress_strings on a fresh codec, whatever the
\* strings, the visit order and the variant, decompress_string(i, out)
\* returns len(strings[i]) and out[0..len) is strings[i], for every i.
C1_RoundTrip ==
    ret.op = "decompress_string" =>
        /\ ret.size = Len(strings[ret.index + 1])
        /\ Decompressed = strings[ret.index + 1]

\* C1's case: a string of several tokens, one of them a merged token, came back.
C1_Witness ==
    /\ ret.op = "decompress_string"
    /\ ret.size > MAX_LENGTH
    /\ string_boundaries[ret.index + 2] - string_boundaries[ret.index + 1] >= 3
    /\ \E k \in (string_boundaries[ret.index + 1] + 1)..string_boundaries[ret.index + 2] :
          compressed_data[k] >= FirstTokenId

RECURSIVE SumSizes(_)
\* the sum of what decompress_string returns for strings 0..n-1
SumSizes(n) ==
    IF n = 0 THEN 0
    ELSE SumSizes(n - 1)
         + decompress_string(variant, n - 1, Len(strings[n]) + FAST_COPY_SIZE, 0).size

\* C2: decompress_all returns the sum of the lengths of the original strings,
\* which is the sum of what decompress_string returns over all i, and
\* out[0..total) is the concatenation of the strings in index order.
C2_DecompressAll ==
    ret.op = "decompress_all" =>
        /\ ret.size = SumLen(strings)
        /\ ret.size = SumSizes(Len(strings))
        /\ Decompressed = Concat(strings)

\* C2's case: two non-empty strings came back from decompress_all.
C2_Witness ==
    /\ ret.op = "decompress_all"
    /\ Len(strings) >= 2
    /\ \A k \in 1..Len(strings) : strings[k] # <<>>
    /\ Len(compressed_data) >= 4

\* C4: after compress on a fresh codec with S strings, string_boundaries has
\* S + 1 entries, starts at 0, ends at len(token_stream), never decreases;
\* the tokens between entries i and i + 1 are those of string i (they spell
\* it), none exactly when string i is empty.
C4_Boundaries ==
    pc = "sealed" =>
        /\ Len(string_boundaries) = Len(strings) + 1
        /\ string_boundaries[1] = 0
        /\ Last(string_boundaries) = Len(compressed_data)
        /\ NonDecreasing(string_boundaries)
        /\ \A i \in 1..Len(strings) :
              /\ Expand(Slice(compressed_data, string_boundaries[i], string_boundaries[i + 1]))
                    = strings[i]
              /\ (string_boundaries[i + 1] = string_boundaries[i]) <=> (strings[i] = <<>>)
              /\ strings[i] = <<>> =>
                    decompress_string(variant, i - 1, FAST_COPY_SIZE, 0).size = 0

\* C4's case: an empty string between two parsed ones, or beside one.
C4_Witness ==
    /\ pc = "sealed"
    /\ \E i, j \in 1..Len(strings) : strings[i] = <<>> /\ strings[j] # <<>>

\* C5: from the start of training on a fresh codec on, dict_offsets[0] = 0,
\* dict_offsets never decreases, its last entry is len(dict_blob), and in the
\* bounded variant no token is longer than 16 bytes.
C5_Offsets ==
    pc \in {"train", "parse", "sealed"} =>
        /\ dictionary_offsets[1] = 0
        /\ NonDecreasing(dictionary_offsets)
        /\ Last(dictionary_offsets) = Len(dictionary_data)
        /\ variant = "OnPair16" =>
              \A id \in 0..(NumTokens - 1) : Len(TokenBytes(id)) <= MAX_LENGTH

\* C5's case: training of the bounded variant holds a 16-byte token and is
\* about to pair it with the next match.
C5_Witness ==
    /\ pc = "train" /\ in_string /\ variant = "OnPair16"
    /\ previous_length = MAX_LENGTH
    /\ NumTokens > FirstTokenId

\* C6 (identity tokens): after training, token b is the one byte b for every
\* b in 0..255, a cursor holding only byte b matches (b, 1), and every token
\* from 256 on is at least 2 bytes long.
C6_IdentityTokens ==
    pc \in {"parse", "sealed"} =>
        /\ \A byte \in Byte : TokenBytes(byte) = <<byte>>
        /\ \A id \in FirstTokenId..(NumTokens - 1) : Len(TokenBytes(id)) >= 2
        /\ pc = "parse" =>
              \A byte \in Byte, junk \in JunkBytes :
                  LpmFind(variant, lpm, <<byte>>, 1, junk) = Match(byte, 1)

\* C6's case: training ended with merged tokens, one of them starting with
\* the zero byte.
C6_Witness ==
    /\ pc = "parse"
    /\ NumTokens > FirstTokenId
    /\ \E id \in FirstTokenId..(NumTokens - 1) : TokenBytes(id)[1] = 0

\* C7: the dictionary never holds more than MaxTokenId + 1 tokens (65536 in
\* the program), the ids of merged tokens are assigned consecutively from 256,
\* and once the last id is assigned training makes no further matcher insert,
\* dictionary append, pair-counter update or find_longest_match call.
C7_DictionaryCap ==
    /\ [](pc \in {"train", "parse", "sealed"} =>
            /\ NumTokens <= MaxTokenId + 1
            /\ next_token_id <= MaxTokenId
            /\ NumTokens = (IF full_dictionary THEN next_token_id + 1 ELSE next_token_id)
            /\ full_dictionary => next_token_id = MaxTokenId)
    /\ [][(pc = "train" /\ dictionary_offsets' # dictionary_offsets) =>
            /\ next_token_id = NumTokens /\ next_token_id >= FirstTokenId
            /\ dictionary_offsets' = Append(dictionary_offsets, Len(dictionary_data'))
            /\ Slice(dictionary_data', dictionary_offsets'[next_token_id + 1],
                     dictionary_offsets'[next_token_id + 2]) = Last(stored')]_vars
    /\ [][(pc = "train" /\ full_dictionary) =>
            UNCHANGED <<lpm, dictionary_data, dictionary_offsets, frequency, lpm_calls>>]_vars

\* C7's case: the last id was assigned while strings were still unvisited.
C7_Witness ==
    /\ pc = "train" /\ full_dictionary
    /\ NumTokens = MaxTokenId + 1
    /\ index <= Len(shuffled_indices)

\* C9 as stated (both codecs): space_used returns 2 * token count + blob bytes
\* + 4 * offset count + 8 * boundary count.
C9_SpaceUsedBothCodecs ==
    ret.op = "space_used" =>
        ret.size = 2 * Len(compressed_data) + Len(dictionary_data)
                     + 4 * Len(dictionary_offsets) + 8 * Len(string_boundaries)

\* C10 (fast copy): with n the value decompress_string or decompress_all
\* returns, the call writes nothing at or past index n + 15 (n + FAST_COPY_SIZE
\* - 1), and out[0..n) holds the decoded bytes when it returns.
C10_FastCopy ==
    ret.op \in {"decompress_string", "decompress_all"} =>
        /\ ret.hi <= ret.size + FAST_COPY_SIZE - 1
        /\ \A j \in 1..Len(ret.buffer) :
              j > ret.size + FAST_COPY_SIZE - 1 => ret.buffer[j] = Untouched
        /\ Decompressed = (IF ret.op = "decompress_all" THEN Concat(strings)
                           ELSE strings[ret.index + 1])

\* C10's case: a call whose last token is one byte long, so that its fast
\* copy ends at n + 15, after an earlier token overwrote part of the
\* fast copy before it.
C10_Witness ==
    /\ ret.op \in {"decompress_string", "decompress_all"}
    /\ ret.size > 1
    /\ ret.hi = ret.size + FAST_COPY_SIZE - 1
    /\ ret.buffer[ret.size + 1] # Untouched

\* What thread t's call returns and writes when it runs alone.
Alone(t) ==
    LET call == readers[t]
    IN IF call.op = "decompress_string"
       THEN decompress_string(variant, call.index,
                              Len(strings[call.index + 1]) + FAST_COPY_SIZE, 0)
       ELSE IF call.op = "decompress_all"
       THEN decompress_all(variant, SumLen(strings) + FAST_COPY_SIZE, 0)
       ELSE [size |-> IF variant = "OnPair16" THEN space_used16 ELSE space_used,
             buffer |-> <<>>, hi |-> 0, read |-> 0]

\* C11 (read concurrency): no step of a decompress_string, decompress_all or
\* space_used call changes compressed_data, string_boundaries,
\* dictionary_data or dictionary_offsets, and however the steps of two calls
\* interleave, each call returns the length, and leaves in out[0..length) the
\* bytes, it would have had it run alone.
C11_ReadConcurrency ==
    /\ [][readers' # readers => codec' = codec]_vars
    /\ [][\A t \in Threads :
            (readers[t].state = "run" /\ readers'[t].state = "idle") =>
                LET got == Returned(t)
                    alone == Alone(t)
                IN /\ got.size = alone.size
                   /\ got.hi = alone.hi
                   /\ readers[t].op # "space_used" =>
                         SubSeq(got.buffer, 1, got.size) = SubSeq(alone.buffer, 1, alone.size)]_vars

\* C11's case: two decompress_string calls on the same string in flight at
\* once, one about to return, the other in the middle of the string.
C11_Witness ==
    /\ \A t \in Threads :
          readers[t].state = "run" /\ readers[t].op = "decompress_string"
    /\ readers["t1"].index = readers["t2"].index
    /\ readers["t1"].at = readers["t1"].data_end
    /\ readers["t2"].at < readers["t1"].at
    /\ readers["t2"].st.size > 0

\* C12 as stated (sealed lifecycle): once compress_strings has returned, no
\* later public operation on the codec (decompress_string, decompress_all,
\* space_used, a further compress_strings) changes dictionary_data,
\* dictionary_offsets, compressed_data or string_boundaries.
C12_SealedForever ==
    [][pc = "sealed" => codec' = codec]_vars

\* A step of the trainer's while loop (the only step enabled inside a string).
InLoop == pc = "train" /\ in_string

\* The observation of the step is of this state's previous token and of the
\* match the step advanced over.
Observed ==
    /\ ret'.op = "observe"
    /\ ret'.prev_id = previous_token_id /\ ret'.prev_len = previous_length
    /\ ret'.pattern = Slice(data, pos - previous_length, pos + ret'.match_len)

\* C13 (length gate): in OnPair16 training, a pass of the loop with
\* prev_len + match_len > 16 leaves the pair counter as it is (no entry
\* created or incremented), makes no matcher insert and no dictionary append,
\* and makes the matched token the previous token.
C13_LengthGate ==
    [][(InLoop /\ variant = "OnPair16" /\ ret'.prev_len + ret'.match_len > MAX_LENGTH) =>
         /\ Observed
         /\ frequency' = frequency
         /\ lpm' = lpm /\ lpm_calls'.insert = lpm_calls.insert
         /\ dictionary_data' = dictionary_data /\ dictionary_offsets' = dictionary_offsets
         /\ next_token_id' = next_token_id
         /\ previous_token_id' = ret'.match_id /\ previous_length' = ret'.match_len
         /\ pos' = pos + ret'.match_len]_vars

\* C13's case: a pass of OnPair16's loop met a pair longer than 16 bytes whose
\* counter, had it been counted, would have reached the threshold.
C13_Witness ==
    /\ pc = "train" /\ variant = "OnPair16" /\ ret.op = "observe"
    /\ ret.prev_len + ret.match_len > MAX_LENGTH
    /\ ret.prev_id = ret.match_id
    /\ ~ret.tried
    /\ previous_token_id = ret.match_id

\* The pair of the step's observation, and its count before the step (an
\* absent entry is what operator[] creates: 0).
ObservedPair == <<ret'.prev_id, ret'.match_id>>
CountBefore == IF ObservedPair \in DOMAIN frequency THEN frequency[ObservedPair] ELSE 0

\* The pair's entry went up by one (uint16_t arithmetic) and then, if the
\* pair was promoted, was erased; no other entry changed.
CountedOnce ==
    LET n == (CountBefore + 1) % CounterModulus
    IN /\ DOMAIN frequency' =
             IF ret'.added THEN DOMAIN frequency \ {ObservedPair}
             ELSE DOMAIN frequency \cup {ObservedPair}
       /\ \A p \in DOMAIN frequency' :
             frequency'[p] = IF p = ObservedPair THEN n ELSE frequency[p]
       /\ ret'.tried = (n >= threshold)

\* C14 as stated: in both variants every pass of the training loop counts
\* its pair once, whatever the two tokens' lengths.
C14_CountsEveryAdjacency == [][InLoop => Observed /\ CountedOnce]_vars

\* C14 (pair counting): every pass of OnPair's training loop adds exactly 1
\* to its pair's counter whatever the lengths; a pass of OnPair16's loop adds
\* exactly 1 when prev_len + match_len <= 16 and leaves the counter as it is
\* otherwise. Insert is attempted exactly when the counted value reaches the
\* threshold.
C14_CountsGatedAdjacency ==
    [][InLoop =>
         /\ Observed
         /\ IF variant = "OnPair16" /\ ret'.prev_len + ret'.match_len > MAX_LENGTH
            THEN frequency' = frequency /\ ~ret'.tried
            ELSE CountedOnce]_vars

\* C14's case: OnPair counted a pair longer than 16 bytes, below the threshold.
C14_Witness ==
    /\ pc = "train" /\ variant = "OnPair" /\ ret.op = "observe"
    /\ ret.prev_len + ret.match_len > MAX_LENGTH
    /\ ~ret.tried
    /\ <<ret.prev_id, ret.match_id>> \in DOMAIN frequency
    /\ frequency[<<ret.prev_id, ret.match_id>>] = 1

\* The pass counted its pair up to exactly the threshold.
ReachesThreshold ==
    /\ variant = "OnPair16" => ret'.prev_len + ret'.match_len <= MAX_LENGTH
    /\ CountBefore + 1 = threshold

\* What a successful insert is followed by, but for the cursor: the pattern's
\* bytes appended to dictionary_data, the new size pushed to
\* dictionary_offsets, the matcher answering next_token_id for the pattern,
\* the pair's counter erased, the new token made the previous token, and
\* next_token_id incremented unless it was the last id.
Promoted ==
    LET merged == Slice(data, pos - previous_length, pos + ret'.match_len)
    IN /\ Len(merged) = previous_length + ret'.match_len
       /\ ret'.pattern = merged
       /\ dictionary_data' = dictionary_data \o merged
       /\ dictionary_offsets' = Append(dictionary_offsets, Len(dictionary_data'))
       /\ \A junk \in JunkBytes :
             LpmFind(variant, lpm', merged, Len(merged), junk) =
                Match(next_token_id, Len(merged))
       /\ ObservedPair \notin DOMAIN frequency'
       /\ previous_token_id' = next_token_id
       /\ previous_length' = previous_length + ret'.match_len
       /\ next_token_id' =
             IF next_token_id = MaxTokenId THEN next_token_id ELSE next_token_id + 1

\* C15 as stated: the pass that counts a pair up to the threshold calls
\* insert, and after every successful insert the cursor is advanced by
\* match_len.
C15_PromotionAdvances ==
    [][InLoop =>
         /\ ReachesThreshold => ret'.tried /\ lpm_calls'.insert = lpm_calls.insert + 1
         /\ ret'.added => Promoted /\ pos' = pos + ret'.match_len]_vars

\* C15 (promotion step): the pass that counts a pair up to the threshold
\* (>= 2) calls insert with data[pos-prev_len .. pos+match_len) and
\* next_token_id; after a successful insert the dictionary, the counter, the
\* previous token and next_token_id are updated as in Promoted, and the cursor
\* is advanced by match_len only, except that the insert of the last id ends
\* training with the cursor where it was.
C15_Promotion ==
    [][InLoop =>
         /\ threshold >= MinThreshold
         /\ ReachesThreshold => ret'.tried /\ lpm_calls'.insert = lpm_calls.insert + 1
         /\ ret'.added =>
               /\ Promoted
               /\ IF next_token_id = MaxTokenId
                  THEN pos' = pos /\ full_dictionary' /\ ~in_string'
                  ELSE pos' = pos + ret'.match_len /\ ~full_dictionary']_vars

\* C15's case: a pair longer than 8 bytes was promoted, and the new token is
\* the previous token.
C15_Witness ==
    /\ pc = "train" /\ ret.op = "observe" /\ ret.added
    /\ ret.prev_len + ret.match_len > MIN_MATCH
    /\ previous_token_id = next_token_id - 1
    /\ previous_length = ret.prev_len + ret.match_len
    /\ ~full_dictionary

\* C16 (bucket full): when lpm.insert returns false in a pass of OnPair16's
\* training loop, dictionary_data, dictionary_offsets, next_token_id and the
\* matcher are left as they were, the match becomes the previous token, the
\* cursor advances by match_len, and training goes on: with the rest of the
\* string if there is one, with the next string of the visit order otherwise.
\* Only OnPair16's insert can return false.
C16_BucketFull ==
    [][(InLoop /\ ret'.tried /\ ~ret'.added) =>
         /\ Observed /\ variant = "OnPair16"
         /\ lpm_calls'.insert = lpm_calls.insert + 1
         /\ dictionary_data' = dictionary_data /\ dictionary_offsets' = dictionary_offsets
         /\ next_token_id' = next_token_id
         /\ lpm' = lpm
         /\ previous_token_id' = ret'.match_id /\ previous_length' = ret'.match_len
         /\ pos' = pos + ret'.match_len
         /\ pc' = "train" /\ ~full_dictionary' /\ shuffled_indices' = shuffled_indices
         /\ IF pos' < end_positions[shuffled_indices[index] + 2]
            THEN in_string' /\ index' = index
            ELSE ~in_string' /\ index' = index + 1]_vars

\* C16's case: an insert into a full bucket failed in the middle of a string,
\* and the trainer is at the rest of it.
C16_Witness ==
    /\ pc = "train" /\ variant = "OnPair16" /\ ret.op = "observe"
    /\ ret.tried /\ ~ret.added
    /\ in_string
    /\ previous_token_id = ret.match_id
    /\ Len(dictionary_offsets) = next_token_id + 1

\* The map of the patterns of at most 8 bytes, in either matcher.
ShortMap == IF variant = "OnPair16" THEN lpm.dictionary ELSE lpm.short_match_lookup

\* C17 (no duplicate insert): whenever the trainer calls lpm.insert, the
\* pattern is none of the patterns stored so far and the matcher does not
\* find it at full length; a pattern of at most 8 bytes gets a new key of the
\* short map, carrying the new id; and the tokens of the dictionary are
\* pairwise distinct byte strings at every point of training, parsing and
\* afterwards.
C17_NoDuplicateInsert ==
    /\ [](pc \in {"train", "parse", "sealed"} =>
             Cardinality({TokenBytes(id) : id \in 0..(NumTokens - 1)}) = NumTokens)
    /\ [][(InLoop /\ ret'.tried) =>
            /\ Observed
            /\ \A k \in 1..Len(stored) : stored[k] # ret'.pattern
            /\ \A junk \in JunkBytes :
                  LET hit == LpmFind(variant, lpm, ret'.pattern, Len(ret'.pattern), junk)
                  IN hit.found /\ hit.len < Len(ret'.pattern)
            /\ (ret'.added /\ Len(ret'.pattern) <= MIN_MATCH) =>
                  \E key \in DOMAIN ShortMap' \ DOMAIN ShortMap :
                     /\ key[2] = Len(ret'.pattern)
                     /\ ShortMap'[key] = next_token_id]_vars

\* C17's case: the second string of the input begins with a pattern the first
\* string put into the matcher, and a pair seen again there was promoted to a
\* short token.
C17_Witness ==
    /\ pc = "train" /\ ret.op = "observe" /\ ret.added
    /\ index = 2 /\ Len(ret.pattern) <= MIN_MATCH
    /\ Len(ret.pattern) > 1
    /\ NumTokens > FirstTokenId + 1

\* The (id, pattern) pairs a matcher holds. LongestPrefixMatcher16: a short
\* key's low bytes, and a bucket's 8-byte key followed by an entry's suffix
\* bytes. LongestPrefixMatcher: a short key's low bytes, and a bucket's 8-byte
\* key followed by the id's suffix in the matcher's own dictionary.
LpmPatterns16(m) ==
    {<<m.dictionary[key], SubSeq(key[1], 1, key[2])>> : key \in DOMAIN m.dictionary}
    \cup UNION {{<<m.buckets[prefix][i][3],
                   prefix \o SubSeq(m.buckets[prefix][i][1], 1, m.buckets[prefix][i][2])>> :
                    i \in 1..Len(m.buckets[prefix])} : prefix \in DOMAIN m.buckets}

LpmPatternsUnbounded(m) ==
    {<<m.short_match_lookup[key], SubSeq(key[1], 1, key[2])>> :
        key \in DOMAIN m.short_match_lookup}
    \cup UNION {{<<m.long_match_buckets[prefix][i],
                   prefix \o Slice(m.dictionary,
                                   m.end_positions[m.long_match_buckets[prefix][i] + 1],
                                   m.end_positions[m.long_match_buckets[prefix][i] + 2])>> :
                    i \in 1..Len(m.long_match_buckets[prefix])} :
                 prefix \in DOMAIN m.long_match_buckets}

LpmPatterns == IF variant = "OnPair16" THEN LpmPatterns16(lpm) ELSE LpmPatternsUnbounded(lpm)

\* C18 (LPM/dictionary agreement): at every pass of training and when it has
\* ended (the matcher is then used by parse_data), the matcher holds a
\* pattern for exactly the ids 0..len(dictionary_offsets)-2, one pattern for
\* each, and that pattern is
\* dictionary_data[dictionary_offsets[id] .. dictionary_offsets[id+1]).
C18_LpmAgreesWithDictionary ==
    pc \in {"train", "parse"} =>
        /\ LpmPatterns = {<<id, TokenBytes(id)>> : id \in 0..(NumTokens - 1)}
        /\ Cardinality(LpmPatterns) = NumTokens

\* C18's case: training has ended with a merged token in the short map and a
\* merged token in a bucket.
C18_Witness ==
    /\ pc = "parse"
    /\ \E e \in LpmPatterns : e[1] >= FirstTokenId /\ Len(e[2]) <= MIN_MATCH
    /\ \E e \in LpmPatterns : e[1] >= FirstTokenId /\ Len(e[2]) > MIN_MATCH
    /\ Buckets # <<>>

\* The lookup the trainer or the parser makes next: where its cursor is and
\* where the current string ends (both read off end_positions), or nothing
\* when the next step makes no lookup.
Ahead ==
    IF pc = "train" /\ index <= Len(shuffled_indices) /\ (in_string \/ ~full_dictionary)
    THEN LET start == end_positions[shuffled_indices[index] + 1]
             end == end_positions[shuffled_indices[index] + 2]
         IN IF in_string THEN {[at |-> pos, end |-> end]}
            ELSE IF start # end THEN {[at |-> start, end |-> end]} ELSE {}
    ELSE IF pc = "parse" /\ index < Len(end_positions) - 1
    THEN IF end_positions[index + 1] # end_positions[index + 2]
         THEN {[at |-> pos, end |-> end_positions[index + 2]]} ELSE {}
    ELSE {}

\* The loop the trainer is in is the loop of a string of the visit order, and
\* every lookup ahead is on a non-empty remainder of its string and returns a
\* match of 1 to `bytes left` bytes, whatever lies past the buffer: no step of
\* train_dictionary or parse_data is held up.
AlwaysMatches ==
    /\ (pc = "train" /\ in_string) => index <= Len(shuffled_indices)
    /\ \A call \in Ahead :
           /\ call.at < call.end
           /\ \A junk \in JunkBytes :
                 LET m == LpmFind(variant, lpm, From(data, call.at), call.end - call.at, junk)
                 IN m.found /\ 1 <= m.len /\ m.len <= call.end - call.at

\* A step that made a lookup moved the cursor forward, and not past the end of
\* the string; the one exception is the insert of the last token id, which
\* ends training where the cursor is.
Advances ==
    lpm_calls'.find # lpm_calls.find =>
        \A call \in Ahead :
            \/ call.at < pos' /\ pos' <= call.end
            \/ pc = "train" /\ in_string /\ full_dictionary' /\ ~in_string' /\ pos' = pos

\* C19 (progress and termination): in training and in parsing every
\* find_longest_match call is on a non-empty remainder and returns a match of
\* 1 to `bytes left in the string` bytes; the cursor strictly increases and
\* never passes the string's end; and train_dictionary and parse_data both
\* return.
C19_ProgressAndTermination ==
    /\ []AlwaysMatches
    /\ [][Advances]_vars
    /\ (pc = "train") ~> (pc = "parse")
    /\ (pc = "parse") ~> (pc = "sealed")

\* C19's case: the parser is in the middle of the second string of two, past
\* a first match longer than one byte.
C19_Witness ==
    /\ pc = "parse" /\ index = 1 /\ Len(strings) = 2
    /\ end_positions[2] + 1 < pos /\ pos < end_positions[3]
    /\ lpm_calls.find > 2

\* The first `length` bytes at a cursor: every prefix of a pattern of the pool
\* (bounded matcher: of at most 16 bytes, the longest its insert is given).
Firsts == UNION {{SubSeq(p, 1, n) : n \in 1..Len(p)} : p \in PatternPool(variant)}

\* The bytes after them: none, a zero byte, the byte before repeated, two
\* other bytes.
Tails == {<<>>, <<0>>, <<a>>, <<b, a>>}

\* C20 (load-strategy independence): find_longest_match(data, length) and the
\* outcome of insert(data, length, id) are those of the first `length` bytes
\* alone: whatever bytes follow them at the cursor, and whatever an 8-byte
\* load picks up past the buffer, the match and the matcher after the insert
\* are the same; in both matchers.
C20_LoadIndependence ==
    pc = "lpm" =>
        \A first \in Firsts :
            LET n == Len(first)
                found == LpmFind(variant, lpm, first, n, 0)
                added == LpmInsert(variant, lpm, first, n, Len(stored), 0)
            IN \A tail \in Tails, junk \in JunkBytes :
                  /\ LpmFind(variant, lpm, first \o tail, n, junk) = found
                  /\ LpmInsert(variant, lpm, first \o tail, n, Len(stored), junk) = added

\* C20's case: a long pattern is stored and so is the pattern made of it and a
\* zero byte; at a cursor holding the longer one the lookup given the shorter
\* length finds the shorter pattern: the byte after `length` is there to be
\* read, equals what the mask puts in its place, and is not taken for a match.
C20_Witness ==
    /\ pc = "lpm"
    /\ \E first \in Firsts :
          /\ Len(first) > MIN_MATCH
          /\ LpmFind(variant, lpm, first \o <<0>>, Len(first), 0).len = Len(first)
          /\ LpmFind(variant, lpm, first \o <<0>>, Len(first) + 1, 0).len = Len(first) + 1

\* The string the trainer is in, read off end_positions.
StringStart == end_positions[shuffled_indices[index] + 1]
StringEnd == end_positions[shuffled_indices[index] + 2]

\* t occurs in s as a run of consecutive bytes.
OccursIn(t, s) ==
    \E from \in 0..(Len(s) - Len(t)) : Slice(s, from, from + Len(t)) = t

\* C21 (trainer cursor): at the start of every pass of the per-string training
\* loop, start <= pos - prev_len, pos < end, and the dictionary bytes of
\* prev_id are data[pos-prev_len .. pos); every byte range given to lpm.insert
\* is data[pos-prev_len .. pos+match_len) and lies inside the current string;
\* and every token is a run of bytes of one input string.
C21_TrainerCursor ==
    /\ [](InLoop =>
            /\ StringStart <= pos - previous_length
            /\ previous_length >= 1
            /\ pos < StringEnd
            /\ TokenBytes(previous_token_id) = Slice(data, pos - previous_length, pos))
    /\ [][(InLoop /\ ret'.tried) =>
            /\ StringStart <= pos - ret'.prev_len
            /\ pos + ret'.match_len <= StringEnd
            /\ ret'.pattern = Slice(data, pos - ret'.prev_len, pos + ret'.match_len)
            /\ OccursIn(ret'.pattern, strings[shuffled_indices[index] + 1])]_vars
    /\ [](pc \in {"train", "parse", "sealed"} =>
            \A id \in FirstTokenId..(NumTokens - 1) :
                \E k \in 1..Len(strings) : OccursIn(TokenBytes(id), strings[k]))

\* C21's case: the trainer is inside a string that is not the first of the
\* data, past its first match, and its previous token is a merged one.
C21_Witness ==
    /\ InLoop
    /\ StringStart > 0
    /\ pos - previous_length > StringStart
    /\ previous_token_id >= FirstTokenId
    /\ ret.op = "observe" /\ ret.tried

\* C22 (dictionary read bounds): every byte decompress_string or
\* decompress_all reads from the dictionary is at an index below
\* len(dictionary_data), whatever the tokens of the stream.
C22_ReadsInsideDictionary ==
    (pc = "sealed" /\ ret.op \in {"decompress_string", "decompress_all"}) =>
        ret.read <= Len(dictionary_data)

====
